---- MODULE Spec2Model ----
(***************************************************************************)
(* Interior Quotation System API (src/main.py, src/schemas.py).            *)
(*                                                                         *)
(* The state is the document store: five named collections, each the       *)
(* sequence of its documents in insertion order, plus the last request     *)
(* served and the response it got.  One action per request handler.        *)
(***************************************************************************)
EXTENDS Integers, Sequences, FiniteSets, TLC

VARIABLES db, resp, procs

vars == <<db, resp, procs>>

\* Documents the store may hold in total.
MaxDocs == 5
\* Longest item list of a quotation payload.
MaxItems == 2

(***************************************************************************)
(* Id strings and ObjectIds.  A string is a sequence of characters.  The   *)
(* 24 hex digits of an ObjectId are abbreviated to two: ObjectId(s)        *)
(* accepts exactly the strings of that length made of hex digits of        *)
(* either case, and str(oid) renders the digits in lower case.  The value  *)
(* of an ObjectId is modelled by its lower-case rendering.                 *)
(***************************************************************************)
Letters == <<"a", "b", "c", "d", "e", "f">>
UpperLetters == <<"A", "B", "C", "D", "E", "F">>
Digits == <<"1", "2", "3", "4", "5", "6", "7", "8", "9">>

IsHexDigit(ch) ==
    \/ \E i \in 1..Len(Letters) : ch = Letters[i] \/ ch = UpperLetters[i]
    \/ \E i \in 1..Len(Digits) : ch = Digits[i]

ToLower(ch) ==
    IF \E i \in 1..Len(UpperLetters) : ch = UpperLetters[i]
    THEN Letters[CHOOSE i \in 1..Len(UpperLetters) : ch = UpperLetters[i]]
    ELSE ch

ToUpper(ch) ==
    IF \E i \in 1..Len(Letters) : ch = Letters[i]
    THEN UpperLetters[CHOOSE i \in 1..Len(Letters) : ch = Letters[i]]
    ELSE ch

Upper(s) == [i \in 1..Len(s) |-> ToUpper(s[i])]

\* bson.ObjectId(s) accepts s when it has the right length and only hex digits.
IsValidId(s) == Len(s) = 2 /\ \A i \in 1..Len(s) : IsHexDigit(s[i])

ObjectId(s) == [i \in 1..Len(s) |-> ToLower(s[i])]

str(oid) == oid

\* Mutant: the string is not checked before it is used as a key.
to_object_id_unchecked(id_str) == [raised |-> FALSE, oid |-> ObjectId(id_str)]

\* to_object_id: the ObjectId of id_str, or HTTPException(400, "Invalid id").
to_object_id(id_str) ==
    IF IsValidId(id_str)
    THEN [raised |-> FALSE, oid |-> ObjectId(id_str)]
    ELSE [raised |-> TRUE, oid |-> <<>>]

(***************************************************************************)
(* Document store gateway.                                                 *)
(***************************************************************************)
Collections == {"user", "housecategory", "subcategory", "package", "quotation"}

\* A document matches a filter when it has every key of the filter with the
\* filter's value (exact match); the empty filter matches every document.
Matches(doc, filter_q) ==
    \A f \in DOMAIN filter_q : f \in DOMAIN doc /\ doc[f] = filter_q[f]

\* find: the matching documents of a collection, in insertion order.
get_documents(store, name, filter_q) ==
    SelectSeq(store[name], LAMBDA d : Matches(d, filter_q))

\* find_one: the first matching document as a sequence of length 1, or the
\* empty sequence (None).
find_one(store, name, filter_q) ==
    LET docs == get_documents(store, name, filter_q)
    IN  IF docs = <<>> THEN <<>> ELSE <<docs[1]>>

\* The id generator.  ObjectIds are opaque and unique across the store; the
\* n-th document of a collection gets the n-th id of a range of its own.
IdLetter ==
    [user |-> "a", housecategory |-> "b", subcategory |-> "c",
     package |-> "d", quotation |-> "e"]

FreshId(store, name) == <<IdLetter[name], Digits[Len(store[name]) + 1]>>

\* The stored document: the payload's fields under a fresh "_id".
NewDoc(payload, oid) ==
    [f \in DOMAIN payload \cup {"_id"} |->
        IF f = "_id" THEN oid ELSE payload[f]]

\* create: insert the payload under a fresh ObjectId.
create_document(store, name, payload) ==
    [store EXCEPT ![name] = Append(@, NewDoc(payload, FreshId(store, name)))]

\* serialize: "_id" is popped and surfaces as the string field "id".
serialize(doc) ==
    [f \in (DOMAIN doc \ {"_id"}) \cup {"id"} |->
        IF f = "id" THEN str(doc["_id"]) ELSE doc[f]]

SerializeAll(docs) == [i \in 1..Len(docs) |-> serialize(docs[i])]

NumDocs(store) ==
    Len(store["user"]) + Len(store["housecategory"]) + Len(store["subcategory"])
        + Len(store["package"]) + Len(store["quotation"])

(***************************************************************************)
(* Requests and responses.  The server takes a request when no response    *)
(* is pending, runs its handler to completion and holds the response       *)
(* until it is sent.                                                       *)
(***************************************************************************)
NoResponse ==
    [op |-> "", req |-> <<>>, status |-> 0, detail |-> "", trace |-> <<>>,
     body |-> <<>>]

\* HTTPException(status_code, detail): the store is left as it is.  The
\* trace lists the store lookups the handler made, in order.
Raise(op, req, status, detail, trace) ==
    /\ resp = NoResponse
    /\ resp' = [op |-> op, req |-> req, status |-> status, detail |-> detail,
                trace |-> trace, body |-> <<>>]
    /\ UNCHANGED <<db, procs>>

\* A create handler's success: one document inserted, {"id": new_id} returned.
Created(op, name, payload, trace) ==
    /\ resp = NoResponse
    /\ NumDocs(db) < MaxDocs
    /\ db' = create_document(db, name, payload)
    /\ resp' = [op |-> op, req |-> payload, status |-> 200, detail |-> "",
                trace |-> trace, body |-> <<[id |-> str(FreshId(db, name))]>>]
    /\ UNCHANGED procs

\* A list or get handler's success.
Returned(op, req, body) ==
    /\ resp = NoResponse
    /\ resp' = [op |-> op, req |-> req, status |-> 200, detail |-> "",
                trace |-> <<>>, body |-> body]
    /\ UNCHANGED <<db, procs>>

\* The pending response goes out.
Send ==
    /\ resp # NoResponse
    /\ resp' = NoResponse
    /\ UNCHANGED <<db, procs>>

\* Python truthiness of an Optional[str] query parameter: the parameter is a
\* sequence of length at most 1 (<<>> is None), and "" is falsy too.
Truthy(param) == Len(param) = 1 /\ Len(param[1]) > 0

(***************************************************************************)
(* Users.                                                                  *)
(***************************************************************************)
create_user(payload) ==
    Created("create_user", "user", payload, <<>>)

\* Mutant: the role filter is dropped.
list_users_unfiltered(role) ==
    Returned("list_users", [role |-> role],
             SerializeAll(get_documents(db, "user", <<>>)))

list_users(role) ==
    LET filter_q == IF Truthy(role) THEN [role |-> role[1]] ELSE <<>>
        docs == get_documents(db, "user", filter_q)
    IN  Returned("list_users", [role |-> role], SerializeAll(docs))

get_user(user_id) ==
    LET key == to_object_id(user_id)
        doc == find_one(db, "user", [_id |-> key.oid])
    IN  IF key.raised
        THEN Raise("get_user", [user_id |-> user_id], 400, "Invalid id", <<>>)
        ELSE IF doc = <<>>
        THEN Raise("get_user", [user_id |-> user_id], 404, "User not found",
                   <<"user">>)
        ELSE Returned("get_user", [user_id |-> user_id], SerializeAll(doc))

(***************************************************************************)
(* House categories.                                                       *)
(***************************************************************************)
create_house_category(payload) ==
    Created("create_house_category", "housecategory", payload, <<>>)

list_house_categories ==
    Returned("list_house_categories", <<>>,
             SerializeAll(get_documents(db, "housecategory", <<>>)))

(***************************************************************************)
(* Subcategories.                                                          *)
(***************************************************************************)
\* Mutant: the existence check is left out.
create_subcategory_unchecked(payload) ==
    LET key == to_object_id(payload.house_category_id)
    IN  IF key.raised
        THEN Raise("create_subcategory", payload, 400, "Invalid id", <<>>)
        ELSE Created("create_subcategory", "subcategory", payload, <<>>)

create_subcategory(payload) ==
    LET key == to_object_id(payload.house_category_id)
        hc == find_one(db, "housecategory", [_id |-> key.oid])
    IN  IF key.raised
        THEN Raise("create_subcategory", payload, 400, "Invalid id", <<>>)
        ELSE IF hc = <<>>
        THEN Raise("create_subcategory", payload, 404,
                   "House category not found", <<"housecategory">>)
        ELSE Created("create_subcategory", "subcategory", payload,
                     <<"housecategory">>)

list_subcategories(house_category_id) ==
    LET filter_q == IF Truthy(house_category_id)
                    THEN [house_category_id |-> house_category_id[1]]
                    ELSE <<>>
        docs == get_documents(db, "subcategory", filter_q)
    IN  Returned("list_subcategories",
                 [house_category_id |-> house_category_id], SerializeAll(docs))

(***************************************************************************)
(* Packages.                                                               *)
(***************************************************************************)
\* Mutant: the existence check is left out.
create_package_unchecked(payload) ==
    LET key == to_object_id(payload.subcategory_id)
    IN  IF key.raised
        THEN Raise("create_package", payload, 400, "Invalid id", <<>>)
        ELSE Created("create_package", "package", payload, <<>>)

create_package(payload) ==
    LET key == to_object_id(payload.subcategory_id)
        sc == find_one(db, "subcategory", [_id |-> key.oid])
    IN  IF key.raised
        THEN Raise("create_package", payload, 400, "Invalid id", <<>>)
        ELSE IF sc = <<>>
        THEN Raise("create_package", payload, 404, "Subcategory not found",
                   <<"subcategory">>)
        ELSE Created("create_package", "package", payload, <<"subcategory">>)

list_packages(subcategory_id) ==
    LET filter_q == IF Truthy(subcategory_id)
                    THEN [subcategory_id |-> subcategory_id[1]]
                    ELSE <<>>
        docs == get_documents(db, "package", filter_q)
    IN  Returned("list_packages", [subcategory_id |-> subcategory_id],
                 SerializeAll(docs))

(***************************************************************************)
(* Quotations.                                                             *)
(***************************************************************************)
\* The loop over payload.items from item i on: the first item whose package
\* id is malformed or matches no package ends it with that error.
RECURSIVE ValidateItems(_, _, _)
ValidateItems(items, i, trace) ==
    IF i > Len(items)
    THEN [status |-> 200, detail |-> "", trace |-> trace]
    ELSE LET key == to_object_id(items[i].package_id)
             pkg == find_one(db, "package", [_id |-> key.oid])
         IN  IF key.raised
             THEN [status |-> 400, detail |-> "Invalid id", trace |-> trace]
             ELSE IF pkg = <<>>
             THEN [status |-> 404, detail |-> "Package not found in items",
                   trace |-> Append(trace, "package")]
             ELSE ValidateItems(items, i + 1, Append(trace, "package"))

\* Mutant: the role is left out of the employee lookup.
EmployeeFilter_any_role(oid) == [_id |-> oid]

\* The employee lookup matches on the id and on the role.
EmployeeFilter(oid) == [_id |-> oid, role |-> "employee"]

\* Mutant: the house category is looked up before the employee.
ValidateHeader_category_first(payload) ==
    LET ekey == to_object_id(payload.employee_id)
        emp == find_one(db, "user", EmployeeFilter(ekey.oid))
        hkey == to_object_id(payload.house_category_id)
        hc == find_one(db, "housecategory", [_id |-> hkey.oid])
        skey == to_object_id(payload.subcategory_id)
        sc == find_one(db, "subcategory", [_id |-> skey.oid])
    IN  IF hkey.raised
        THEN [status |-> 400, detail |-> "Invalid id", trace |-> <<>>]
        ELSE IF hc = <<>>
        THEN [status |-> 404, detail |-> "House category not found",
              trace |-> <<"housecategory">>]
        ELSE IF ekey.raised
        THEN [status |-> 400, detail |-> "Invalid id",
              trace |-> <<"housecategory">>]
        ELSE IF emp = <<>>
        THEN [status |-> 404, detail |-> "Employee not found",
              trace |-> <<"housecategory", "user">>]
        ELSE IF skey.raised
        THEN [status |-> 400, detail |-> "Invalid id",
              trace |-> <<"housecategory", "user">>]
        ELSE IF sc = <<>>
        THEN [status |-> 404, detail |-> "Subcategory not found",
              trace |-> <<"housecategory", "user", "subcategory">>]
        ELSE [status |-> 200, detail |-> "",
              trace |-> <<"housecategory", "user", "subcategory">>]

\* The checks of the employee, the house category and the subcategory, in
\* the order the handler makes them: the first failure, or status 200.
ValidateHeader(payload) ==
    LET ekey == to_object_id(payload.employee_id)
        emp == find_one(db, "user", EmployeeFilter(ekey.oid))
        hkey == to_object_id(payload.house_category_id)
        hc == find_one(db, "housecategory", [_id |-> hkey.oid])
        skey == to_object_id(payload.subcategory_id)
        sc == find_one(db, "subcategory", [_id |-> skey.oid])
    IN  IF ekey.raised
        THEN [status |-> 400, detail |-> "Invalid id", trace |-> <<>>]
        ELSE IF emp = <<>>
        THEN [status |-> 404, detail |-> "Employee not found",
              trace |-> <<"user">>]
        ELSE IF hkey.raised
        THEN [status |-> 400, detail |-> "Invalid id", trace |-> <<"user">>]
        ELSE IF hc = <<>>
        THEN [status |-> 404, detail |-> "House category not found",
              trace |-> <<"user", "housecategory">>]
        ELSE IF skey.raised
        THEN [status |-> 400, detail |-> "Invalid id",
              trace |-> <<"user", "housecategory">>]
        ELSE IF sc = <<>>
        THEN [status |-> 404, detail |-> "Subcategory not found",
              trace |-> <<"user", "housecategory", "subcategory">>]
        ELSE [status |-> 200, detail |-> "",
              trace |-> <<"user", "housecategory", "subcategory">>]

\* Mutant: the subcategory must also belong to the payload's house category.
ValidateQuotation_hierarchy(payload) ==
    LET h == ValidateHeader(payload)
        sc == find_one(db, "subcategory",
                       [_id |-> to_object_id(payload.subcategory_id).oid])
    IN  IF h.status # 200 THEN h
        ELSE IF to_object_id(sc[1].house_category_id).oid
                    # to_object_id(payload.house_category_id).oid
        THEN [status |-> 404, detail |-> "Subcategory not found",
              trace |-> h.trace]
        ELSE ValidateItems(payload.items, 1, h.trace)

\* The reference checks of create_quotation: the header, then the items.
ValidateQuotation(payload) ==
    LET h == ValidateHeader(payload)
    IN  IF h.status # 200 THEN h
        ELSE ValidateItems(payload.items, 1, h.trace)

\* Mutant: the quotation is written once the header is checked, before the
\* items are.
create_quotation_write_first(payload) ==
    LET h == ValidateHeader(payload)
        v == ValidateQuotation(payload)
    IN  IF h.status # 200
        THEN Raise("create_quotation", payload, h.status, h.detail, h.trace)
        ELSE IF v.status # 200
        THEN /\ NumDocs(db) < MaxDocs
             /\ db' = create_document(db, "quotation", payload)
             /\ resp' = [op |-> "create_quotation", req |-> payload,
                         status |-> v.status, detail |-> v.detail,
                         trace |-> v.trace, body |-> <<>>]
             /\ UNCHANGED procs
        ELSE Created("create_quotation", "quotation", payload, v.trace)

create_quotation(payload) ==
    LET v == ValidateQuotation(payload)
    IN  IF v.status # 200
        THEN Raise("create_quotation", payload, v.status, v.detail, v.trace)
        ELSE Created("create_quotation", "quotation", payload, v.trace)

(***************************************************************************)
(* Python float arithmetic (IEEE 754 binary64, round to nearest, ties to   *)
(* even).  A non-negative float is [m, e]: the significand m as a sequence *)
(* of bits, most significant first, and the exponent e of its last bit,    *)
(* standing for m * 2^e; normalised, m starts and ends with 1, and zero is *)
(* [m |-> <<>>, e |-> 0].  Only the operations of list_quotations are      *)
(* modelled, on operands in the normal range.                              *)
(***************************************************************************)
\* Significand bits of a Python float.
MantDig == 53

Zeros(k) == [i \in 1..k |-> 0]

Ones(b) == {i \in 1..Len(b) : b[i] = 1}

Min(S) == CHOOSE x \in S : \A y \in S : x <= y
Max(S) == CHOOSE x \in S : \A y \in S : x >= y

\* b without its leading zeros.
StripLeading(b) ==
    IF Ones(b) = {} THEN <<>> ELSE SubSeq(b, Min(Ones(b)), Len(b))

\* m * 2^e without the leading and the trailing zeros of m.
Normalise(m, e) ==
    IF Ones(m) = {} THEN [m |-> <<>>, e |-> 0]
    ELSE [m |-> SubSeq(m, Min(Ones(m)), Max(Ones(m))),
          e |-> e + (Len(m) - Max(Ones(m)))]

\* b + 1 on bits.
Increment(b) ==
    LET zeros == {i \in 1..Len(b) : b[i] = 0}
    IN  IF zeros = {} THEN <<1>> \o Zeros(Len(b))
        ELSE [i \in 1..Len(b) |->
                IF i < Max(zeros) THEN b[i]
                ELSE IF i = Max(zeros) THEN 1 ELSE 0]

\* The float nearest to m * 2^e (+ a nonzero remainder below the last bit of
\* m when sticky): the first MantDig bits, rounded on the bits cut off.
RoundToFloat(m, e, sticky) ==
    LET b == StripLeading(m)
        cut == Len(b) - MantDig
    IN  IF cut <= 0 THEN Normalise(b, e)
        ELSE LET kept == SubSeq(b, 1, MantDig)
                 guard == b[MantDig + 1]
                 rest == sticky \/ \E i \in (MantDig + 2)..Len(b) : b[i] = 1
                 up == guard = 1 /\ (rest \/ kept[MantDig] = 1)
             IN  Normalise(IF up THEN Increment(kept) ELSE kept, e + cut)

\* The w-bit rendering of x < 2^w, and the value of a few bits.
BitsOfNat(x, w) == [i \in 1..w |-> (x \div 2^(w - i)) % 2]

RECURSIVE NatOfBits(_)
NatOfBits(b) ==
    IF b = <<>> THEN 0
    ELSE 2 * NatOfBits(SubSeq(b, 1, Len(b) - 1)) + b[Len(b)]

\* The bits of a natural below 2^30.
Bits(n) == StripLeading(BitsOfNat(n, 30))

FloatOfInt(n) == Normalise(Bits(n), 0)

\* Long arithmetic works on chunks of 12 bits (4096 = 2^12): the bits are
\* padded on the left to whole chunks.
Padded(b) == Zeros((12 - (Len(b) % 12)) % 12) \o b

ChunkAt(b, i) == NatOfBits(SubSeq(b, 12 * (i - 1) + 1, 12 * i))

\* Long division of the padded bits num, from chunk i on with remainder r
\* so far, by the small divisor d: the quotient bits and the last remainder.
RECURSIVE LongDivide(_, _, _, _)
LongDivide(num, d, i, r) ==
    IF 12 * i > Len(num) THEN [q |-> <<>>, r |-> r]
    ELSE LET t == 4096 * r + ChunkAt(num, i)
             rest == LongDivide(num, d, i + 1, t % d)
         IN  [q |-> BitsOfNat(t \div d, 12) \o rest.q, r |-> rest.r]

\* float(n) / float(d) for naturals n and d > 0: the quotient is carried
\* to more than MantDig + 2 bits before it is rounded.
FloatDiv(n, d) ==
    LET k == MantDig + 2 + Len(Bits(d))
        res == LongDivide(Padded(Bits(n) \o Zeros(k)), d, 1, 0)
    IN  RoundToFloat(res.q, 0 - k, res.r # 0)

\* The bits of b * n for padded bits b and a natural n below 2^18, from
\* chunk i of b down.
RECURSIVE MulBits(_, _, _, _)
MulBits(b, n, i, carry) ==
    IF i = 0 THEN Bits(carry)
    ELSE LET t == ChunkAt(b, i) * n + carry
         IN  MulBits(b, n, i - 1, t \div 4096) \o BitsOfNat(t % 4096, 12)

\* x * float(n) for a float x and a natural n.
FloatMul(x, n) ==
    LET b == Padded(x.m)
    IN  RoundToFloat(MulBits(b, n, Len(b) \div 12, 0), x.e, FALSE)

\* a - b on padded bits of equal length, a >= b, from chunk i down.
RECURSIVE SubBits(_, _, _, _)
SubBits(a, b, i, borrow) ==
    IF i = 0 THEN <<>>
    ELSE LET t == ChunkAt(a, i) - ChunkAt(b, i) - borrow
         IN  IF t < 0
             THEN SubBits(a, b, i - 1, 1) \o BitsOfNat(t + 4096, 12)
             ELSE SubBits(a, b, i - 1, 0) \o BitsOfNat(t, 12)

\* float(n) - x for a natural n and a float x <= n.
FloatSub(n, x) ==
    LET e == IF x.e < 0 THEN x.e ELSE 0
        a == Bits(n) \o Zeros(0 - e)
        b == x.m \o Zeros(x.e - e)
        w == 12 + (IF Len(a) > Len(b) THEN Len(a) ELSE Len(b))
        pa == Padded(Zeros(w - Len(a)) \o a)
        pb == Padded(Zeros(w - Len(b)) \o b)
    IN  RoundToFloat(SubBits(pa, pb, Len(pa) \div 12, 0), e, FALSE)

(***************************************************************************)
(* Listing quotations, with the totals computed at read time.              *)
(***************************************************************************)
\* dict.get(key, default)
Get(d, key, default) == IF key \in DOMAIN d THEN d[key] ELSE default

\* sum([it.get("unit_price", 0) * it.get("quantity", 1) for it in items]);
\* prices are whole numbers here, so the products and their sum are exact.
RECURSIVE Subtotal(_)
Subtotal(items) ==
    IF items = <<>> THEN 0
    ELSE Get(items[1], "unit_price", 0) * Get(items[1], "quantity", 1)
            + Subtotal(Tail(items))

WithTotals(d) ==
    LET items == Get(d, "items", <<>>)
        subtotal == Subtotal(items)
        discount == FloatMul(FloatDiv(Get(d, "discount_percent", 0), 100),
                             subtotal)
        total == FloatSub(subtotal, discount)
        out == serialize(d)
        computed == [subtotal |-> FloatOfInt(subtotal),
                     discount_amount |-> discount, total |-> total]
    IN  [f \in DOMAIN out \cup DOMAIN computed |->
            IF f \in DOMAIN computed THEN computed[f] ELSE out[f]]

list_quotations(employee_id) ==
    LET filter_q == IF Truthy(employee_id)
                    THEN [employee_id |-> employee_id[1]]
                    ELSE <<>>
        docs == get_documents(db, "quotation", filter_q)
    IN  Returned("list_quotations", [employee_id |-> employee_id],
                 [i \in 1..Len(docs) |-> WithTotals(docs[i])])

(***************************************************************************)
(* Request inputs.                                                         *)
(***************************************************************************)
Roles == {"admin", "employee"}

Optional(S) == {<<>>} \cup {<<s>> : s \in S}

Range(seq) == {seq[i] : i \in 1..Len(seq)}

\* The ids the server has handed out.
StoredIds(name) == {str(d["_id"]) : d \in Range(db[name])}

AllStoredIds == UNION {StoredIds(c) : c \in Collections}

\* Id strings a client sends: the id of any stored document, the first id of
\* a collection also in upper case, a well-formed id no document has, and
\* malformed ones (a non-hex character, a wrong length).
UnknownId == <<"f", "1">>
MalformedIds == {<<"z", "z">>, <<"a">>}
IdStrs ==
    AllStoredIds \cup {Upper(s) : s \in {t \in AllStoredIds : t[2] = "1"}}
        \cup {UnknownId} \cup MalformedIds

Item(package_id) ==
    [package_id |-> package_id, quantity |-> 2, unit_price |-> 500]

RECURSIVE SeqsUpTo(_, _)
SeqsUpTo(S, n) ==
    IF n = 0 THEN {<<>>}
    ELSE LET shorter == SeqsUpTo(S, n - 1)
         IN  shorter \cup {Append(q, x) : q \in shorter, x \in S}

QuotationPayload(e, h, s, items) ==
    [employee_id |-> e, house_category_id |-> h, subcategory_id |-> s,
     items |-> items, discount_percent |-> 10]

\* The references of a quotation payload to collection `name`: the id of any
\* of its documents, a well-formed id no document has, a malformed one.
Refs(name) == StoredIds(name) \cup {UnknownId, <<"z", "z">>}

\* Quotation payloads: every combination of the three header references with
\* no items, and every item list under header references that resolve.
QuotationPayloads ==
    {QuotationPayload(e, h, s, <<>>) :
        e \in Refs("user"), h \in Refs("housecategory"),
        s \in Refs("subcategory")}
    \cup
    {QuotationPayload(e, h, s, items) :
        e \in StoredIds("user"), h \in StoredIds("housecategory"),
        s \in StoredIds("subcategory"),
        items \in SeqsUpTo({Item(p) : p \in Refs("package")}, MaxItems)}

(***************************************************************************)
(* The state machine.                                                      *)
(***************************************************************************)
EmptyStore == [c \in Collections |-> <<>>]

Init ==
    /\ db = EmptyStore
    /\ resp = NoResponse
    /\ procs = <<>>

Idle == resp = NoResponse

CreateUser == Idle /\ \E r \in Roles : create_user([role |-> r])
ListUsers ==
    Idle /\ \E role \in Optional(Roles \cup {"manager", ""}) : list_users(role)
GetUser == Idle /\ \E s \in IdStrs : get_user(s)
CreateHouseCategory == Idle /\ create_house_category([name |-> "Apartment"])
ListHouseCategories == Idle /\ list_house_categories
CreateSubcategory ==
    Idle /\ \E s \in IdStrs : create_subcategory([house_category_id |-> s])
ListSubcategories ==
    Idle /\ \E s \in Optional(IdStrs \cup {<<>>}) : list_subcategories(s)
CreatePackage ==
    Idle /\ \E s \in IdStrs : create_package([subcategory_id |-> s])
ListPackages ==
    Idle /\ \E s \in Optional(IdStrs \cup {<<>>}) : list_packages(s)
CreateQuotation == Idle /\ \E q \in QuotationPayloads : create_quotation(q)
ListQuotations ==
    Idle /\ \E s \in Optional(IdStrs \cup {<<>>}) : list_quotations(s)

Next ==
    \/ CreateUser
    \/ ListUsers
    \/ GetUser
    \/ CreateHouseCategory
    \/ ListHouseCategories
    \/ CreateSubcategory
    \/ ListSubcategories
    \/ CreatePackage
    \/ ListPackages
    \/ CreateQuotation
    \/ ListQuotations
    \/ Send

Spec == Init /\ [][Next]_vars

(***************************************************************************)
(* Aggregation: quotations of varied prices, quantities and discounts over *)
(* a store that already holds an employee, a house category, a subcategory *)
(* and a package, and their listing.                                       *)
(***************************************************************************)
SeededStore ==
    LET s1 == create_document(EmptyStore, "user", [role |-> "employee"])
        s2 == create_document(s1, "housecategory", [name |-> "Apartment"])
        s3 == create_document(s2, "subcategory",
                              [house_category_id |-> <<"b", "1">>])
    IN  create_document(s3, "package", [subcategory_id |-> <<"c", "1">>])

PricedItems ==
    {[package_id |-> <<"d", "1">>, quantity |-> q, unit_price |-> u] :
        q \in {1, 2}, u \in {3, 100}}

PricedPayloads ==
    {[employee_id |-> <<"a", "1">>, house_category_id |-> <<"b", "1">>,
      subcategory_id |-> <<"c", "1">>, items |-> items,
      discount_percent |-> dp] :
        items \in SeqsUpTo(PricedItems, MaxItems), dp \in {0, 7, 10, 100}}

InitAgg ==
    /\ db = SeededStore
    /\ resp = NoResponse
    /\ procs = <<>>

CreatePricedQuotation ==
    Idle /\ \E q \in PricedPayloads : create_quotation(q)

NextAgg ==
    \/ CreatePricedQuotation
    \/ ListQuotations
    \/ Send

SpecAgg == InitAgg /\ [][NextAgg]_vars

(***************************************************************************)
(* Concurrent requests.  Each request is a process; every store lookup and *)
(* the store write of a handler is one atomic step, and the steps of       *)
(* different requests interleave freely.  Two create_quotation requests,   *)
(* one create_package request and a client that lists the quotations again *)
(* and again run over a store holding an employee, a house category and a  *)
(* subcategory.                                                            *)
(***************************************************************************)
Writers == {"q1", "q2"}
PackageCreator == "p"
Reader == "r"

\* Mutant: the quotation is written before the items are checked.
Stages_persist_first ==
    <<"employee", "housecategory", "subcategory", "persist", "items", "done">>

\* The steps of create_quotation in program order.
Stages ==
    <<"employee", "housecategory", "subcategory", "items", "persist", "done">>

StageAfter(stage) ==
    Stages[(CHOOSE i \in 1..Len(Stages) : Stages[i] = stage) + 1]

ConcStore ==
    LET s1 == create_document(EmptyStore, "user", [role |-> "employee"])
        s2 == create_document(s1, "housecategory", [name |-> "Apartment"])
    IN  create_document(s2, "subcategory", [house_category_id |-> <<"b", "1">>])

\* The payloads of the concurrent create_quotation requests: the package
\* they name is the one the create_package request is about to write.
ConcPayloads ==
    {QuotationPayload(e, <<"b", "1">>, <<"c", "1">>, items) :
        e \in {<<"a", "1">>, UnknownId},
        items \in {<<>>, <<Item(<<"d", "1">>)>>,
                   <<Item(<<"d", "1">>), Item(UnknownId)>>}}

Idling ==
    [pc |-> "start", payload |-> <<>>, k |-> 1, trace |-> <<>>,
     status |-> 0, detail |-> "", body |-> <<>>]

InitConc ==
    /\ db = ConcStore
    /\ resp = NoResponse
    /\ procs = [p \in Writers \cup {PackageCreator, Reader} |-> Idling]

\* A step of process p that touches the store at most by reading it.
Local(p, rec) ==
    /\ procs' = [procs EXCEPT ![p] = rec]
    /\ UNCHANGED <<db, resp>>

Failed(p, status, detail, trace) ==
    Local(p, [procs[p] EXCEPT !.pc = "failed", !.status = status,
                                !.detail = detail, !.trace = trace])

\* The request arrives with its payload.
QStart(w) ==
    /\ procs[w].pc = "start"
    /\ \E q \in ConcPayloads :
            Local(w, [procs[w] EXCEPT !.pc = Stages[1], !.payload = q])

QCheckEmployee(w) ==
    /\ procs[w].pc = "employee"
    /\ LET key == to_object_id(procs[w].payload.employee_id)
           emp == find_one(db, "user", EmployeeFilter(key.oid))
       IN  IF key.raised
           THEN Failed(w, 400, "Invalid id", procs[w].trace)
           ELSE IF emp = <<>>
           THEN Failed(w, 404, "Employee not found",
                       Append(procs[w].trace, "user"))
           ELSE Local(w, [procs[w] EXCEPT
                            !.pc = StageAfter("employee"),
                            !.trace = Append(@, "user")])

QCheckHouseCategory(w) ==
    /\ procs[w].pc = "housecategory"
    /\ LET key == to_object_id(procs[w].payload.house_category_id)
           hc == find_one(db, "housecategory", [_id |-> key.oid])
       IN  IF key.raised
           THEN Failed(w, 400, "Invalid id", procs[w].trace)
           ELSE IF hc = <<>>
           THEN Failed(w, 404, "House category not found",
                       Append(procs[w].trace, "housecategory"))
           ELSE Local(w, [procs[w] EXCEPT
                            !.pc = StageAfter("housecategory"),
                            !.trace = Append(@, "housecategory")])

QCheckSubcategory(w) ==
    /\ procs[w].pc = "subcategory"
    /\ LET key == to_object_id(procs[w].payload.subcategory_id)
           sc == find_one(db, "subcategory", [_id |-> key.oid])
       IN  IF key.raised
           THEN Failed(w, 400, "Invalid id", procs[w].trace)
           ELSE IF sc = <<>>
           THEN Failed(w, 404, "Subcategory not found",
                       Append(procs[w].trace, "subcategory"))
           ELSE Local(w, [procs[w] EXCEPT
                            !.pc = StageAfter("subcategory"),
                            !.trace = Append(@, "subcategory")])

\* One turn of the loop over the items: the lookup of item k's package, or
\* the end of the loop.
QCheckItem(w) ==
    /\ procs[w].pc = "items"
    /\ LET items == procs[w].payload.items
           k == procs[w].k
       IN  IF k > Len(items)
           THEN Local(w, [procs[w] EXCEPT !.pc = StageAfter("items")])
           ELSE LET key == to_object_id(items[k].package_id)
                    pkg == find_one(db, "package", [_id |-> key.oid])
                IN  IF key.raised
                    THEN Failed(w, 400, "Invalid id", procs[w].trace)
                    ELSE IF pkg = <<>>
                    THEN Failed(w, 404, "Package not found in items",
                                Append(procs[w].trace, "package"))
                    ELSE Local(w, [procs[w] EXCEPT
                                     !.k = k + 1,
                                     !.trace = Append(@, "package")])

\* The one store write of the request.
QPersist(w) ==
    /\ procs[w].pc = "persist"
    /\ db' = create_document(db, "quotation", procs[w].payload)
    /\ procs' = [procs EXCEPT
                    ![w].pc = StageAfter("persist"),
                    ![w].status = 200,
                    ![w].body = <<[id |-> str(FreshId(db, "quotation"))]>>]
    /\ UNCHANGED resp

\* create_package: the lookup of the subcategory, then the write.
PCheck ==
    /\ procs[PackageCreator].pc = "start"
    /\ LET payload == [subcategory_id |-> <<"c", "1">>]
           key == to_object_id(payload.subcategory_id)
           sc == find_one(db, "subcategory", [_id |-> key.oid])
       IN  IF key.raised
           THEN Failed(PackageCreator, 400, "Invalid id", <<>>)
           ELSE IF sc = <<>>
           THEN Failed(PackageCreator, 404, "Subcategory not found",
                       <<"subcategory">>)
           ELSE Local(PackageCreator,
                      [procs[PackageCreator] EXCEPT
                          !.pc = "persist", !.payload = payload,
                          !.trace = <<"subcategory">>])

PPersist ==
    /\ procs[PackageCreator].pc = "persist"
    /\ db' = create_document(db, "package", procs[PackageCreator].payload)
    /\ procs' = [procs EXCEPT
                    ![PackageCreator].pc = "done",
                    ![PackageCreator].status = 200,
                    ![PackageCreator].body =
                        <<[id |-> str(FreshId(db, "package"))]>>]
    /\ UNCHANGED resp

\* list_quotations without a filter: one read of the store; the client
\* keeps the records it got and asks again.
RList ==
    /\ LET docs == get_documents(db, "quotation", <<>>)
       IN  procs' = [procs EXCEPT
                        ![Reader].pc = "listed",
                        ![Reader].status = 200,
                        ![Reader].body =
                            [i \in 1..Len(docs) |-> WithTotals(docs[i])]]
    /\ UNCHANGED <<db, resp>>

NextConc ==
    \/ \E w \in Writers : QStart(w)
    \/ \E w \in Writers : QCheckEmployee(w)
    \/ \E w \in Writers : QCheckHouseCategory(w)
    \/ \E w \in Writers : QCheckSubcategory(w)
    \/ \E w \in Writers : QCheckItem(w)
    \/ \E w \in Writers : QPersist(w)
    \/ PCheck
    \/ PPersist
    \/ RList

SpecConc == InitConc /\ [][NextConc]_vars

(***************************************************************************)
(* Properties.                                                             *)
(***************************************************************************)
Docs(name) == Range(db[name])

\* The id string s resolves to a document of collection `name`.
Resolves(s, name) ==
    IsValidId(s) /\ \E d \in Docs(name) : d["_id"] = ObjectId(s)

ResolvesToRole(s, role) ==
    IsValidId(s)
        /\ \E u \in Docs("user") : u["_id"] = ObjectId(s) /\ u.role = role

\* C1: referential integrity.  In every reachable state every stored
\* subcategory's house_category_id resolves to a stored house category, every
\* stored package's subcategory_id to a stored subcategory, and every stored
\* quotation's employee_id to a stored user with role "employee", its
\* house_category_id and subcategory_id to stored documents of those kinds,
\* and the package_id of each of its items to a stored package.
C1_ReferentialIntegrity ==
    /\ \A sc \in Docs("subcategory") :
            Resolves(sc.house_category_id, "housecategory")
    /\ \A pk \in Docs("package") : Resolves(pk.subcategory_id, "subcategory")
    /\ \A qt \in Docs("quotation") :
            /\ ResolvesToRole(qt.employee_id, "employee")
            /\ Resolves(qt.house_category_id, "housecategory")
            /\ Resolves(qt.subcategory_id, "subcategory")
            /\ \A i \in 1..Len(qt.items) :
                    Resolves(qt.items[i].package_id, "package")

\* A full chain is stored: a quotation with an item, over a package, a
\* subcategory written in upper case, a house category and an employee.
C1_Witness ==
    /\ \E qt \in Docs("quotation") : Len(qt.items) >= 1
    /\ \E sc \in Docs("subcategory") :
            sc.house_category_id = Upper(sc.house_category_id)

\* C2: create_quotation is all-or-nothing.  A step in which create_quotation
\* answers with an error leaves all five collections as they were.
C2_AllOrNothing ==
    [][(resp'.op = "create_quotation" /\ resp'.status # 200) => db' = db]_vars

\* create_quotation has failed on its second item, after the header and the
\* first item resolved.
C2_Witness ==
    /\ resp.op = "create_quotation"
    /\ resp.status = 404
    /\ Len(resp.req.items) = 2
    /\ Resolves(resp.req.items[1].package_id, "package")
    /\ ~Resolves(resp.req.items[2].package_id, "package")
    /\ Len(db["quotation"]) = 0

\* The references of a quotation payload in the order of validation.
QuotationRefs(q) ==
    <<[kind |-> "user", id |-> q.employee_id],
      [kind |-> "housecategory", id |-> q.house_category_id],
      [kind |-> "subcategory", id |-> q.subcategory_id]>>
        \o [i \in 1..Len(q.items) |->
                [kind |-> "package", id |-> q.items[i].package_id]]

RefFails(r) ==
    IF r.kind = "user" THEN ~ResolvesToRole(r.id, "employee")
    ELSE ~Resolves(r.id, r.kind)

\* The position of the earliest failing reference, 0 when none fails.
FirstFailing(q) ==
    LET refs == QuotationRefs(q)
        failing == {i \in 1..Len(refs) : RefFails(refs[i])}
    IN  IF failing = {} THEN 0 ELSE Min(failing)

\* ReferenceNotFound(kind) as the handlers word it.
NotFoundDetail ==
    [user |-> "Employee not found",
     housecategory |-> "House category not found",
     subcategory |-> "Subcategory not found",
     package |-> "Package not found in items"]

\* C3: validation order.  The answer of create_quotation is the error of
\* the earliest failing reference in the order employee, house category,
\* subcategory, items in list order; the lookups made are those of the
\* references up to that one and no later one; with no failing reference
\* every reference is looked up and the answer is a success.
C3_ValidationOrder ==
    resp.op = "create_quotation" =>
        LET refs == QuotationRefs(resp.req)
            k == FirstFailing(resp.req)
            kinds == [i \in 1..Len(refs) |-> refs[i].kind]
        IN  IF k = 0
            THEN resp.status = 200 /\ resp.trace = kinds
            ELSE IF ~IsValidId(refs[k].id)
            THEN /\ resp.status = 400
                 /\ resp.detail = "Invalid id"
                 /\ resp.trace = SubSeq(kinds, 1, k - 1)
                 /\ resp.body = <<>>
            ELSE /\ resp.status = 404
                 /\ resp.detail = NotFoundDetail[refs[k].kind]
                 /\ resp.trace = SubSeq(kinds, 1, k)
                 /\ resp.body = <<>>

\* Both the employee and the house category are unresolved, a subcategory
\* exists, and the error names the employee.
C3_Witness ==
    /\ resp.op = "create_quotation"
    /\ ~ResolvesToRole(resp.req.employee_id, "employee")
    /\ IsValidId(resp.req.employee_id)
    /\ ~Resolves(resp.req.house_category_id, "housecategory")
    /\ Resolves(resp.req.subcategory_id, "subcategory")
    /\ resp.detail = "Employee not found"

\* C4: a subcategory under a created house category.  create_subcategory
\* with the id a create_house_category returned succeeds and adds exactly one
\* subcategory, holding that id; with a well-formed id that no stored house
\* category has it fails with "House category not found" and adds nothing.
C4_Step ==
    resp'.op = "create_subcategory" =>
        LET s == resp'.req.house_category_id
            n == Len(db["subcategory"])
        IN  /\ s \in StoredIds("housecategory") =>
                /\ resp'.status = 200
                /\ Len(db'["subcategory"]) = n + 1
                /\ SubSeq(db'["subcategory"], 1, n) = db["subcategory"]
                /\ db'["subcategory"][n + 1].house_category_id = s
                /\ resp'.body = <<[id |-> str(db'["subcategory"][n + 1]["_id"])]>>
                /\ \A c \in Collections \ {"subcategory"} : db'[c] = db[c]
            /\ (IsValidId(s) /\ ObjectId(s) \notin StoredIds("housecategory")) =>
                /\ resp'.status = 404
                /\ resp'.detail = "House category not found"
                /\ db' = db

C4_SubcategoryCreation == [][C4_Step]_vars

\* A subcategory was created under the second of two house categories.
C4_Witness ==
    /\ resp.op = "create_subcategory"
    /\ resp.status = 200
    /\ Len(db["housecategory"]) = 2
    /\ resp.req.house_category_id = str(db["housecategory"][2]["_id"])

\* C5: an admin is no employee.  create_quotation whose employee_id is the id
\* of a user with role "admin" fails with "Employee not found", the error it
\* gives for a well-formed id that no user has, whatever the other
\* references are, and stores nothing.
C5_Step ==
    LET e == resp'.req.employee_id
    IN  (/\ resp'.op = "create_quotation"
         /\ \/ ResolvesToRole(e, "admin")
            \/ (IsValidId(e) /\ ~Resolves(e, "user")))
        => /\ resp'.status = 404
           /\ resp'.detail = "Employee not found"
           /\ db' = db

C5_AdminIsNoEmployee == [][C5_Step]_vars

\* create_quotation was refused for an admin although the house category and
\* the subcategory of the payload resolve.
C5_Witness ==
    /\ resp.op = "create_quotation"
    /\ ResolvesToRole(resp.req.employee_id, "admin")
    /\ Resolves(resp.req.house_category_id, "housecategory")
    /\ Resolves(resp.req.subcategory_id, "subcategory")
    /\ resp.status = 404
    /\ resp.detail = "Employee not found"

\* The id string an operation takes as a reference or as a filter; for
\* create_quotation, every reference of the payload.
IdInputs ==
    IF resp.op = "create_subcategory" THEN {resp.req.house_category_id}
    ELSE IF resp.op = "create_package" THEN {resp.req.subcategory_id}
    ELSE IF resp.op = "get_user" THEN {resp.req.user_id}
    ELSE IF resp.op = "create_quotation"
    THEN {r.id : r \in Range(QuotationRefs(resp.req))}
    ELSE IF resp.op = "list_subcategories" THEN Range(resp.req.house_category_id)
    ELSE IF resp.op = "list_packages" THEN Range(resp.req.subcategory_id)
    ELSE IF resp.op = "list_quotations" THEN Range(resp.req.employee_id)
    ELSE {}

InvalidIdentifier == resp.status = 400 /\ resp.detail = "Invalid id"

\* C7 as stated: every operation that takes an id string as a reference or
\* as a filter fails with InvalidIdentifier whenever that string is malformed.
C7_Original ==
    (\E s \in IdInputs : ~IsValidId(s)) => InvalidIdentifier

ListedCollection ==
    [list_subcategories |-> "subcategory", list_packages |-> "package",
     list_quotations |-> "quotation"]

\* C7 amended: create_subcategory, create_package and get_user fail with
\* InvalidIdentifier whenever their id string is malformed; create_quotation
\* fails with InvalidIdentifier exactly when the earliest of its references
\* that is malformed or unresolved is a malformed one; the list filters are
\* not validated: with a malformed filter value the listing succeeds, with
\* no document for a non-empty value and with every document for "".
C7_Amended ==
    /\ resp.op \in {"create_subcategory", "create_package", "get_user"} =>
            ((\E s \in IdInputs : ~IsValidId(s)) <=> InvalidIdentifier)
    /\ resp.op = "create_quotation" =>
            LET refs == QuotationRefs(resp.req)
                k == FirstFailing(resp.req)
            IN  (k # 0 /\ ~IsValidId(refs[k].id)) <=> InvalidIdentifier
    /\ (resp.op \in DOMAIN ListedCollection
            /\ \E s \in IdInputs : ~IsValidId(s)) =>
            /\ resp.status = 200
            /\ Len(resp.body) =
                 IF \E s \in IdInputs : s = <<>>
                 THEN Len(db[ListedCollection[resp.op]]) ELSE 0

\* Subcategories exist and a listing filtered by a malformed, non-empty
\* house_category_id has succeeded.
C7_Witness ==
    /\ resp.op = "list_subcategories"
    /\ resp.req.house_category_id = << <<"z", "z">> >>
    /\ resp.status = 200
    /\ Len(db["subcategory"]) >= 1

BodyIds == {resp.body[i].id : i \in 1..Len(resp.body)}

UsersWithRole(r) == {u \in Docs("user") : u.role = r}

\* The response lists exactly the users of U, each once and with its role.
ListsExactly(U) ==
    /\ BodyIds = {str(u["_id"]) : u \in U}
    /\ Len(resp.body) = Cardinality(U)
    /\ \A i \in 1..Len(resp.body) :
            \E u \in U : resp.body[i] = [id |-> str(u["_id"]), role |-> u.role]

\* C8 as stated: list_users with a role filter value r returns exactly the
\* stored users whose role equals r, and with no filter all stored users.
C8_Original ==
    resp.op = "list_users" =>
        IF resp.req.role = <<>> THEN ListsExactly(Docs("user"))
        ELSE ListsExactly(UsersWithRole(resp.req.role[1]))

\* C8 amended: list_users with a non-empty role filter value r returns
\* exactly the stored users whose role equals r; with no filter, or with the
\* empty string as the filter value, it returns all stored users.
C8_Amended ==
    resp.op = "list_users" =>
        IF resp.req.role = <<>> \/ resp.req.role = <<"">>
        THEN ListsExactly(Docs("user"))
        ELSE ListsExactly(UsersWithRole(resp.req.role[1]))

\* Users of both roles are stored and the listing for "employee" is out.
C8_Witness ==
    /\ resp.op = "list_users"
    /\ resp.req.role = <<"employee">>
    /\ UsersWithRole("employee") # {}
    /\ UsersWithRole("admin") # {}

RECURSIVE SumOfItems(_)
SumOfItems(items) ==
    IF items = <<>> THEN 0
    ELSE (IF "unit_price" \in DOMAIN items[1] THEN items[1].unit_price ELSE 0)
            * (IF "quantity" \in DOMAIN items[1] THEN items[1].quantity ELSE 1)
         + SumOfItems(Tail(items))

\* The exact value of x * n and of n - x for a float x and a natural n.
ExactTimes(x, n) ==
    LET b == Padded(x.m)
    IN  Normalise(MulBits(b, n, Len(b) \div 12, 0), x.e)

ExactMinus(n, x) ==
    LET e == IF x.e < 0 THEN x.e ELSE 0
        a == Bits(n) \o Zeros(0 - e)
        b == x.m \o Zeros(x.e - e)
        w == 12 + (IF Len(a) > Len(b) THEN Len(a) ELSE Len(b))
        pa == Padded(Zeros(w - Len(a)) \o a)
        pb == Padded(Zeros(w - Len(b)) \o b)
    IN  Normalise(SubBits(pa, pb, Len(pa) \div 12, 0), e)

\* C6: exact totals.  Every quotation list_quotations returns has subtotal
\* equal to the sum over its items of unit_price x quantity, discount_amount
\* equal to subtotal x discount_percent / 100 and total equal to subtotal -
\* discount_amount, all three exactly.
C6_ExactTotals ==
    resp.op = "list_quotations" =>
        \A i \in 1..Len(resp.body) :
            LET q == resp.body[i]
                sum == SumOfItems(q.items)
            IN  /\ q.subtotal = FloatOfInt(sum)
                /\ ExactTimes(q.discount_amount, 100)
                        = FloatOfInt(sum * q.discount_percent)
                /\ q.total = ExactMinus(sum, q.discount_amount)

Kinds(q) == [i \in 1..Len(QuotationRefs(q)) |-> QuotationRefs(q)[i].kind]

\* The stored quotation qt is the complete record of a create_quotation
\* request that has run all its validators and has written since.
WrittenComplete(qt) ==
    \E w \in Writers :
        /\ procs[w].pc = "done"
        /\ procs[w].trace = Kinds(procs[w].payload)
        /\ procs[w].body = <<[id |-> str(qt["_id"])]>>
        /\ qt = NewDoc(procs[w].payload, qt["_id"])

ReferencesResolve ==
    /\ \A sc \in Docs("subcategory") :
            Resolves(sc.house_category_id, "housecategory")
    /\ \A pk \in Docs("package") : Resolves(pk.subcategory_id, "subcategory")
    /\ \A qt \in Docs("quotation") :
            \A r \in Range(QuotationRefs(qt)) : ~RefFails(r)

\* C9: no partial visibility.  In every state of every interleaving, every
\* stored quotation is the complete record of a request whose validators
\* have all passed, every record a listing has returned is such a stored
\* quotation with its totals, a request that has failed or has not reached
\* its write has stored nothing, and every stored reference resolves.
C9_NoPartialVisibility ==
    /\ \A qt \in Docs("quotation") : WrittenComplete(qt)
    /\ \A rec \in Range(procs[Reader].body) :
            \E qt \in Docs("quotation") : rec = WithTotals(qt)
    /\ Len(db["quotation"])
            = Cardinality({w \in Writers : procs[w].pc = "done"})
    /\ ReferencesResolve

\* A listing has returned the quotation of one request while the other
\* request is between its validators.
C9_Witness ==
    /\ Len(procs[Reader].body) = 1
    /\ Len(procs[Reader].body[1].items) = 1
    /\ \E w \in Writers : procs[w].pc = "items" /\ procs[w].k = 2

====
